---- MODULE Spec2Model ----
(***************************************************************************)
(* A model of src/pathfinding.js: the PathfindingGrid class, its mouse     *)
(* handlers (the edit operations on start, end and walls) and its A*       *)
(* search findPath.                                                        *)
(*                                                                         *)
(* Positions are the objects {row, col} of the source, modelled as records *)
(* [row, col]; the keys `${row},${col}` that index walls, visited,         *)
(* cameFrom, gScore and fScore are modelled as pairs <<row, col>>.         *)
(* Sequences are 1-based here and 0-based in the source.                   *)
(***************************************************************************)
EXTENDS Integers, Sequences, FiniteSets, TLC

VARIABLES
    rows,        \* this.rows
    cols,        \* this.cols
    startPos,    \* this.startPos
    endPos,      \* this.endPos
    walls,       \* this.walls: a set of keys
    isDragging,  \* this.isDragging
    dragType,    \* this.dragType: Null, "start" or "end"
    run,         \* the locals of the latest findPath invocation
    path,        \* the path last handed to renderGrid
    visited,     \* the visited set last handed to renderGrid
    found,       \* whether the latest findPath returned a path (not null)
    hist         \* history of the latest edits (observation only)

vars == <<rows, cols, startPos, endPos, walls, isDragging, dragType, run, path, visited, found, hist>>

(***************************************************************************)
(* Bounds.  The page builds a grid of size 20; the model checks a small     *)
(* one, with a bounded number of walls.                                    *)
(***************************************************************************)
Rows == 3
Cols == 3
MaxWalls == 2

Null == "null"

Abs(x) == IF x < 0 THEN -x ELSE x

Pos(row, col) == [row |-> row, col |-> col]

\* The tiles of the grid: the cells the mouse handlers are registered on.
Cells == {Pos(r, c) : r \in 0..(rows - 1), c \in 0..(cols - 1)}

\* key(pos) of findPath
Key(pos) == <<pos.row, pos.col>>

\* `${row},${col}` of toggleWall and isWall
KeyRC(row, col) == <<row, col>>

(***************************************************************************)
(* The constructor puts start at (5,5) and end at (15,15) of the 20 x 20   *)
(* grid, a quarter and three quarters of the way along each axis.  For the *)
(* page the model keeps these proportions, so that both are tiles of the   *)
(* small grid; at Rows = Cols = 20 the values are those of the source.     *)
(* The constructor with the positions as written is InitCtor below.        *)
(***************************************************************************)
\* The largest number of rows, and of columns, the constructor is called with
\* where its arguments are drawn (InitCtor).
MaxDim == 3

\* this.startPos and this.endPos as the constructor writes them
CtorStartPos == Pos(5, 5)
CtorEndPos == Pos(15, 15)

StartPos0 == Pos(Rows \div 4, Cols \div 4)
EndPos0 == Pos((3 * Rows) \div 4, (3 * Cols) \div 4)

----------------------------------------------------------------------------
(* Map helpers: a JavaScript Map is a function on the set of its keys.     *)

EmptyMap == [k \in {} |-> 0]

MapHas(m, k) == k \in DOMAIN m

MapSet(m, k, v) == [x \in (DOMAIN m) \cup {k} |-> IF x = k THEN v ELSE m[x]]

----------------------------------------------------------------------------
(* Predicates of the grid                                                  *)

IsStartAt(s, row, col) == s.row = row /\ s.col = col

IsEndAt(e, row, col) == e.row = row /\ e.col = col

IsStart(row, col) == IsStartAt(startPos, row, col)

IsEnd(row, col) == IsEndAt(endPos, row, col)

IsWall(w, row, col) == KeyRC(row, col) \in w

\* Directions with a slip: the last offset is diagonal.
DirectionsDiagonal == << <<-1, 0>>, <<1, 0>>, <<0, -1>>, <<1, 1>> >>

\* up, down, left, right
Directions == << <<-1, 0>>, <<1, 0>>, <<0, -1>>, <<0, 1>> >>

\* The fields of the object that getNeighbors and isWall read: this.rows,
\* this.cols and this.walls.
Grid(r, c, w) == [rows |-> r, cols |-> c, walls |-> w]

RECURSIVE NeighborsFrom(_, _, _, _)
NeighborsFrom(grid, row, col, i) ==
    IF i > Len(Directions) THEN <<>>
    ELSE LET newRow == row + Directions[i][1]
             newCol == col + Directions[i][2]
             rest == NeighborsFrom(grid, row, col, i + 1)
         IN IF newRow >= 0 /\ newRow < grid.rows /\
               newCol >= 0 /\ newCol < grid.cols /\
               ~IsWall(grid.walls, newRow, newCol)
            THEN <<Pos(newRow, newCol)>> \o rest
            ELSE rest

\* getNeighbors with a slip: the wall test is left out.
GetNeighborsThroughWalls(grid, row, col) ==
    NeighborsFrom([grid EXCEPT !.walls = {}], row, col, 1)

GetNeighbors(grid, row, col) == NeighborsFrom(grid, row, col, 1)

\* Manhattan distance
Heuristic(pos1, pos2) == Abs(pos1.row - pos2.row) + Abs(pos1.col - pos2.col)

----------------------------------------------------------------------------
(* findPath.  A search state holds the locals of one invocation; status is *)
(* "running" inside the loop, "found" after the return of a path and       *)
(* "nopath" after the return of null.                                      *)

NoPath == <<>>

InitSearch(start, end) ==
    [openSet  |-> <<start>>,
     cameFrom |-> EmptyMap,
     gScore   |-> MapSet(EmptyMap, Key(start), 0),
     fScore   |-> MapSet(EmptyMap, Key(start), Heuristic(start, end)),
     visited  |-> {},
     status   |-> "running",
     path     |-> NoPath]

\* The scan for the node with the lowest fScore: the index of the first
\* minimum of openSet.
RECURSIVE ScanLowest(_, _, _, _)
ScanLowest(openSet, fScore, i, currentIdx) ==
    IF i > Len(openSet) THEN currentIdx
    ELSE IF fScore[Key(openSet[i])] < fScore[Key(openSet[currentIdx])]
         THEN ScanLowest(openSet, fScore, i + 1, i)
         ELSE ScanLowest(openSet, fScore, i + 1, currentIdx)

\* The scan with a slip: it starts from the last node of openSet.
LowestIdxFromLast(openSet, fScore) == ScanLowest(openSet, fScore, 1, Len(openSet))

LowestIdx(openSet, fScore) == ScanLowest(openSet, fScore, 2, 1)

\* openSet.splice(currentIdx, 1)
Splice(seq, idx) == SubSeq(seq, 1, idx - 1) \o SubSeq(seq, idx + 1, Len(seq))

\* openSet.some(pos => key(pos) === neighborKey)
InOpenSet(openSet, k) == \E i \in 1..Len(openSet) : Key(openSet[i]) = k

\* The walk back along cameFrom; temp is unshifted before the step back.
RECURSIVE ReconstructPath(_, _, _)
ReconstructPath(cameFrom, temp, acc) ==
    IF MapHas(cameFrom, Key(temp))
    THEN ReconstructPath(cameFrom, cameFrom[Key(temp)], <<temp>> \o acc)
    ELSE acc

\* The body of the loop with a slip: the score of a neighbour is replaced
\* whatever the score it has.
RelaxOneAlways(s, current, neighbor, end) ==
    LET neighborKey == Key(neighbor)
        tentativeGScore == s.gScore[Key(current)] + 1
    IN [s EXCEPT
           !.cameFrom = MapSet(@, neighborKey, current),
           !.gScore = MapSet(@, neighborKey, tentativeGScore),
           !.fScore = MapSet(@, neighborKey, tentativeGScore + Heuristic(neighbor, end)),
           !.openSet = IF InOpenSet(@, neighborKey) THEN @ ELSE Append(@, neighbor)]

\* The body of the loop over the neighbours of current.
RelaxOne(s, current, neighbor, end) ==
    LET neighborKey == Key(neighbor)
        tentativeGScore == s.gScore[Key(current)] + 1
    IN IF ~MapHas(s.gScore, neighborKey) \/ tentativeGScore < s.gScore[neighborKey]
       THEN [s EXCEPT
                !.cameFrom = MapSet(@, neighborKey, current),
                !.gScore = MapSet(@, neighborKey, tentativeGScore),
                !.fScore = MapSet(@, neighborKey, tentativeGScore + Heuristic(neighbor, end)),
                !.openSet = IF InOpenSet(@, neighborKey) THEN @ ELSE Append(@, neighbor)]
       ELSE s

\* The element of a set of one element.  TheOne({e(x) : x \in {v}}) is e(v)
\* with v evaluated once, as a const of the code is.
TheOne(S) == CHOOSE x \in S : TRUE

\* for (const neighbor of neighbors), from the i-th neighbour on
RECURSIVE Relax(_, _, _, _, _)
Relax(s, current, neighbors, i, end) ==
    IF i > Len(neighbors) THEN s
    ELSE TheOne({Relax(s2, current, neighbors, i + 1, end) :
                    s2 \in {RelaxOne(s, current, neighbors[i], end)}})

\* The loop with a slip: current is not spliced from openSet.
StepNoSplice(s, grid, end) ==
    IF Len(s.openSet) = 0
    THEN [s EXCEPT !.status = "nopath", !.path = NoPath]
    ELSE TheOne({
           IF current.row = end.row /\ current.col = end.col
           THEN [s EXCEPT !.status = "found",
                          !.path = ReconstructPath(s.cameFrom, current, <<>>)]
           ELSE TheOne({Relax(s1, current, neighbors, 1, end) :
                          s1 \in {[s EXCEPT !.visited = @ \cup {Key(current)}]},
                          neighbors \in {GetNeighbors(grid, current.row, current.col)}})
           : current \in {s.openSet[LowestIdx(s.openSet, s.fScore)]}})

\* One test of the loop condition followed by one iteration of the loop, or
\* by the code after the loop.
Step(s, grid, end) ==
    IF Len(s.openSet) = 0
    THEN [s EXCEPT !.status = "nopath", !.path = NoPath]
    ELSE TheOne({
           IF current.row = end.row /\ current.col = end.col
           THEN [s EXCEPT !.status = "found",
                          !.path = ReconstructPath(s.cameFrom, current, <<>>)]
           ELSE TheOne({Relax(s1, current, neighbors, 1, end) :
                          s1 \in {[s EXCEPT !.openSet = Splice(@, LowestIdx(s.openSet, s.fScore)),
                                           !.visited = @ \cup {Key(current)}]},
                          neighbors \in {GetNeighbors(grid, current.row, current.col)}})
           : current \in {s.openSet[LowestIdx(s.openSet, s.fScore)]}})

RECURSIVE RunLoop(_, _, _)
RunLoop(s, grid, end) ==
    IF s.status # "running" THEN s ELSE RunLoop(Step(s, grid, end), grid, end)

\* The whole of findPath on start, end and the grid: the locals at its
\* return.
FindPath(start, end, grid) == RunLoop(InitSearch(start, end), grid, end)

\* this.renderGrid(path, visited) and the return value
Render(s) ==
    /\ path' = s.path
    /\ visited' = s.visited
    /\ found' = (s.status = "found")

\* A call of findPath with a slip: gScore outlives the invocation, so the
\* scores of the search before are still there.
CallFindPathStale ==
    /\ run' = RunLoop([InitSearch(startPos', endPos') EXCEPT
                          !.gScore = MapSet(run.gScore, Key(startPos'), 0)],
                      Grid(rows, cols, walls'), endPos')
    /\ Render(run')

\* A handler's call of findPath, on the model the handler leaves.
CallFindPath ==
    /\ run' = FindPath(startPos', endPos', Grid(rows, cols, walls'))
    /\ Render(run')

----------------------------------------------------------------------------
(* The history variable.  It observes the handlers and no handler reads    *)
(* it.  kind is "off" when nothing is recorded, "none" when the latest     *)
(* edit is of no recorded kind, "toggle1" after a toggle of cell,          *)
(* "toggle2" after a second toggle of the same cell with no edit in        *)
(* between, "rerun" after a handler called findPath on a model it left as  *)
(* it was, "refused" after a drag onto the other endpoint was ignored and  *)
(* "cleared" after walls were cleared.  walls, path, visited and found are *)
(* the model and the rendering before the first of the recorded toggles,   *)
(* or before the recorded call.  A call on an unchanged model is no edit:  *)
(* it is not recorded between two toggles.                                 *)

HistShape(kind, cell, w, p, v, f) ==
    [kind |-> kind, cell |-> cell, walls |-> w, path |-> p, visited |-> v, found |-> f]

HistOff == HistShape("off", <<>>, {}, <<>>, {}, FALSE)

HistNone == HistShape("none", <<>>, {}, <<>>, {}, FALSE)

\* After a toggle of the cell key.
HistToggle(key) ==
    IF hist.kind = "toggle1" /\ hist.cell = key
    THEN [hist EXCEPT !.kind = "toggle2"]
    ELSE HistShape("toggle1", key, walls, path, visited, found)

\* After a call of findPath on a model left as it was.
HistRerun ==
    IF hist.kind = "toggle1"
    THEN hist
    ELSE HistShape("rerun", <<>>, walls, path, visited, found)

\* After a handler that is no edit (cleared also after an edit): it is not
\* recorded between two toggles.
HistMark(kind) ==
    IF hist.kind = "toggle1"
    THEN hist
    ELSE HistShape(kind, <<>>, {}, <<>>, {}, FALSE)

Track(h) == hist' = IF hist.kind = "off" THEN hist ELSE h

----------------------------------------------------------------------------
(* The handlers                                                            *)

\* toggleWall with a slip: a wall is added and never deleted.
ToggleWallAddOnly(row, col) ==
    IF IsStart(row, col) \/ IsEnd(row, col)
    THEN UNCHANGED <<walls, run, path, visited, found, hist>>
    ELSE LET key == KeyRC(row, col)
         IN /\ walls' = walls \cup {key}
            /\ Cardinality(walls') <= MaxWalls    \* the bound of the model
            /\ CallFindPath
            /\ Track(HistToggle(key))

\* toggleWall with a slip: the test for the endpoints is left out.
ToggleWallNoGuard(row, col) ==
    LET key == KeyRC(row, col)
    IN /\ walls' = IF key \in walls THEN walls \ {key} ELSE walls \cup {key}
       /\ Cardinality(walls') <= MaxWalls
       /\ CallFindPath
       /\ Track(HistToggle(key))

ToggleWall(row, col) ==
    IF IsStart(row, col) \/ IsEnd(row, col)
    THEN UNCHANGED <<walls, run, path, visited, found, hist>>
    ELSE LET key == KeyRC(row, col)
         IN /\ walls' = IF key \in walls THEN walls \ {key} ELSE walls \cup {key}
            /\ Cardinality(walls') <= MaxWalls    \* the bound of the model
            /\ CallFindPath
            /\ Track(HistToggle(key))

HandleMouseDown(row, col) ==
    IF IsStart(row, col)
    THEN /\ isDragging' = TRUE
         /\ dragType' = "start"
         /\ UNCHANGED <<rows, cols, startPos, endPos, walls, run, path, visited, found, hist>>
    ELSE IF IsEnd(row, col)
    THEN /\ isDragging' = TRUE
         /\ dragType' = "end"
         /\ UNCHANGED <<rows, cols, startPos, endPos, walls, run, path, visited, found, hist>>
    ELSE /\ UNCHANGED <<rows, cols, startPos, endPos, isDragging, dragType>>
         /\ ToggleWall(row, col)

\* handleMouseEnter with a slip: each branch tests the dragged endpoint
\* instead of the other one.
HandleMouseEnterWrongGuard(row, col) ==
    IF isDragging /\ dragType # Null /\ dragType = "start" /\ ~IsStart(row, col)
    THEN /\ startPos' = Pos(row, col)
         /\ UNCHANGED <<rows, cols, endPos, walls, isDragging, dragType>>
         /\ CallFindPath
         /\ Track(HistNone)
    ELSE IF isDragging /\ dragType # Null /\ dragType = "end" /\ ~IsEnd(row, col)
    THEN /\ endPos' = Pos(row, col)
         /\ UNCHANGED <<rows, cols, startPos, walls, isDragging, dragType>>
         /\ CallFindPath
         /\ Track(HistNone)
    ELSE UNCHANGED vars

HandleMouseEnter(row, col) ==
    IF isDragging /\ dragType # Null /\ dragType = "start" /\ ~IsEnd(row, col)
    THEN /\ startPos' = Pos(row, col)
         /\ UNCHANGED <<rows, cols, endPos, walls, isDragging, dragType>>
         /\ CallFindPath
         /\ Track(IF startPos' = startPos THEN HistRerun ELSE HistNone)
    ELSE IF isDragging /\ dragType # Null /\ dragType = "end" /\ ~IsStart(row, col)
    THEN /\ endPos' = Pos(row, col)
         /\ UNCHANGED <<rows, cols, startPos, walls, isDragging, dragType>>
         /\ CallFindPath
         /\ Track(IF endPos' = endPos THEN HistRerun ELSE HistNone)
    ELSE /\ UNCHANGED <<rows, cols, startPos, endPos, walls, isDragging, dragType,
                        run, path, visited, found>>
         /\ Track(IF isDragging /\ dragType # Null THEN HistMark("refused") ELSE hist)

\* handleMouseUp with a slip: dragType is not reset.
HandleMouseUpKeepsType ==
    /\ isDragging' = FALSE
    /\ UNCHANGED <<rows, cols, startPos, endPos, walls, dragType, run, path, visited, found, hist>>

HandleMouseUp ==
    /\ isDragging' = FALSE
    /\ dragType' = Null
    /\ UNCHANGED <<rows, cols, startPos, endPos, walls, run, path, visited, found, hist>>

\* clearWalls with a slip: it ends the drag as well.
ClearWallsEndsDrag ==
    /\ walls' = {}
    /\ isDragging' = FALSE
    /\ dragType' = Null
    /\ UNCHANGED <<rows, cols, startPos, endPos>>
    /\ CallFindPath
    /\ Track(IF walls = {} THEN HistRerun ELSE HistShape("cleared", <<>>, {}, <<>>, {}, FALSE))

\* clearWalls with a slip: the walls are cleared and no search is run.
ClearWallsNoSearch ==
    /\ walls' = {}
    /\ UNCHANGED <<rows, cols, startPos, endPos, isDragging, dragType>>
    /\ UNCHANGED <<run, path, visited, found>>
    /\ Track(IF walls = {} THEN HistRerun ELSE HistShape("cleared", <<>>, {}, <<>>, {}, FALSE))

ClearWalls ==
    /\ walls' = {}
    /\ UNCHANGED <<rows, cols, startPos, endPos, isDragging, dragType>>
    /\ CallFindPath
    /\ Track(IF walls = {} THEN HistRerun ELSE HistShape("cleared", <<>>, {}, <<>>, {}, FALSE))

\* The state the constructor leaves, but for hist, when called with r and c
\* and placing start at s and end at e.
ConstructedWith(r, c, s, e) ==
    /\ rows = r
    /\ cols = c
    /\ startPos = s
    /\ endPos = e
    /\ walls = {}
    /\ isDragging = FALSE
    /\ dragType = Null
    /\ run = FindPath(s, e, Grid(r, c, {}))
    /\ path = run.path
    /\ visited = run.visited
    /\ found = (run.status = "found")

\* The page: a grid on which start and end are tiles.
Constructed == ConstructedWith(Rows, Cols, StartPos0, EndPos0)

Init == Constructed /\ hist = HistOff

MouseDown == \E cell \in Cells : HandleMouseDown(cell.row, cell.col)

MouseEnter == \E cell \in Cells : HandleMouseEnter(cell.row, cell.col)

MouseUp == HandleMouseUp

ClearClick == ClearWalls

Next == MouseDown \/ MouseEnter \/ MouseUp \/ ClearClick

\* The page and its user: the grid after construction under any sequence of
\* mouse events and clicks of the clear button.
Spec == Init /\ [][Next]_vars

\* The same, with the latest edits recorded in hist.
InitHist == Constructed /\ hist = HistNone

SpecHist == InitHist /\ [][Next]_vars

\* new PathfindingGrid(r, c) for any r and c from 1 to MaxDim, with start and
\* end where the constructor writes them.
InitCtor ==
    /\ \E r \in 1..MaxDim, c \in 1..MaxDim : ConstructedWith(r, c, CtorStartPos, CtorEndPos)
    /\ hist = HistOff

SpecCtor == InitCtor /\ [][Next]_vars

(***************************************************************************)
(* findPath taken one iteration at a time.  The search starts from any     *)
(* walls (start and end may be walls, see C3), any start and end that      *)
(* differ and any state of the drag; run holds the locals between the      *)
(* iterations, as they are on entry to the loop.  The display is that of   *)
(* renderGrid() with its defaults until the search returns.  Here hist     *)
(* lists the keys of the cells expanded (spliced from openSet and added to *)
(* visited), in order.                                                     *)
(***************************************************************************)
SearchHist(seq) == [kind |-> "search", expanded |-> seq]

InitLoop ==
    /\ rows = Rows
    /\ cols = Cols
    /\ walls \in {w \in SUBSET ((0..(Rows - 1)) \X (0..(Cols - 1))) : Cardinality(w) <= MaxWalls}
    /\ startPos \in Cells
    /\ endPos \in Cells
    /\ ~IsStart(endPos.row, endPos.col)
    /\ \E d \in {Null, "start", "end"} : isDragging = (d # Null) /\ dragType = d
    /\ run = InitSearch(startPos, endPos)
    /\ path = NoPath
    /\ visited = {}
    /\ found = FALSE
    /\ hist = SearchHist(<<>>)

\* One test of the loop condition of findPath with what follows it: an
\* iteration, or the return.
LoopStep ==
    /\ run.status = "running"
    /\ run' = Step(run, Grid(rows, cols, walls), endPos)
    /\ IF run'.status = "running"
       THEN /\ UNCHANGED <<path, visited, found>>
            /\ hist' = SearchHist(Append(hist.expanded,
                                         Key(run.openSet[LowestIdx(run.openSet, run.fScore)])))
       ELSE /\ Render(run')
            /\ UNCHANGED hist
    /\ UNCHANGED <<rows, cols, startPos, endPos, walls, isDragging, dragType>>

SpecSearch == InitLoop /\ [][LoopStep]_vars

\* findPath is one synchronous loop: once entered, the next iteration is
\* run, nothing else of the page running in between.
SpecSearchFair == SpecSearch /\ WF_vars(LoopStep)

\* toggleWall called on any tile, as a method of the object.
ToggleWallCall ==
    \E cell \in Cells :
        /\ UNCHANGED <<rows, cols, startPos, endPos, isDragging, dragType>>
        /\ ToggleWall(cell.row, cell.col)

NextCalls == Next \/ ToggleWallCall

\* The page, and toggleWall called on any tile besides.
SpecCalls == Init /\ [][NextCalls]_vars

----------------------------------------------------------------------------
(* Reference notions the properties are stated with.  They are defined on  *)
(* the grid alone, apart from the search.                                   *)

AllKeys == (0..(rows - 1)) \X (0..(cols - 1))

InBounds(k) == k \in AllKeys

\* 4-adjacency of two keys
Adjacent(a, b) == (a[1] - b[1]) * (a[1] - b[1]) + (a[2] - b[2]) * (a[2] - b[2]) = 1

\* One more move from the cells of seen into in-bounds non-wall cells.
Grow(seen, w) == seen \cup {k \in AllKeys \ w : \E s \in seen : Adjacent(s, k)}

RECURSIVE Closure(_, _)
Closure(seen, w) ==
    LET next == Grow(seen, w)
    IN IF next = seen THEN seen ELSE Closure(next, w)

\* The cells reachable from start by 4-connected moves through in-bounds
\* non-wall cells (start itself by no move).
Reachable(start, w) == Closure({Key(start)}, w)

RECURSIVE DistFrom(_, _, _, _)
DistFrom(seen, target, w, d) ==
    IF target \in seen THEN d
    ELSE LET next == Grow(seen, w)
         IN IF next = seen THEN -1 ELSE DistFrom(next, target, w, d + 1)

\* The breadth-first-search distance from start to end, -1 when there is none.
Distance(start, end, w) == DistFrom({Key(start)}, Key(end), w, 0)

CanReach(start, end, w) == Distance(start, end, w) >= 0

\* The number of consecutive pairs of a sequence of cells.
EdgeCount(p) == Len(p) - 1

----------------------------------------------------------------------------
(* Properties                                                              *)

\* C1: whenever end can be reached from start through in-bounds non-wall
\* cells, findPath returns a path whose edge count is the breadth-first
\* distance from start to end.
C1_ShortestEdgeCount ==
    CanReach(startPos, endPos, walls) =>
        found /\ EdgeCount(path) = Distance(startPos, endPos, walls)

\* What the code does return there: as many cells as the distance, start
\* left out.
PathCellsShortest ==
    CanReach(startPos, endPos, walls) =>
        found /\ Len(path) = Distance(startPos, endPos, walls)

\* C2: a found path begins with the start cell and ends with the end cell;
\* when no path is found the path is empty.
C2_PathEndpoints ==
    /\ found => (Len(path) >= 1 /\ path[1] = startPos /\ path[Len(path)] = endPos)
    /\ ~found => path = <<>>

\* What the code does return: the path ends with end and begins with a
\* neighbour of start.
PathFromNeighbourToEnd ==
    /\ found => /\ Len(path) >= 1
                /\ path[Len(path)] = endPos
                /\ Adjacent(Key(path[1]), Key(startPos))
    /\ ~found => path = <<>>

\* C3: neither the start cell nor the end cell is in the wall set.
C3_EndpointsNotWalls == Key(startPos) \notin walls /\ Key(endPos) \notin walls

\* C4: the start cell and the end cell are different cells.
C4_StartNotEnd == startPos # endPos

\* C4 witness: both endpoints have been dragged, start onto the cell end
\* was constructed on.
C4_Witness == startPos = EndPos0 /\ endPos # EndPos0 /\ endPos # StartPos0

\* C5: the visited set of a search has no wall cell and no cell outside the
\* grid.
C5_VisitedFreeInBounds == \A k \in visited : k \notin walls /\ InBounds(k)

\* C6: in a returned path consecutive cells are 4-adjacent, no cell is a
\* wall and no cell appears twice.
C6_PathWellFormed ==
    found =>
        /\ \A i \in 1..(Len(path) - 1) : Heuristic(path[i], path[i + 1]) = 1
        /\ \A i \in 1..Len(path) : Key(path[i]) \notin walls
        /\ \A i, j \in 1..Len(path) : path[i] = path[j] => i = j

\* C6 witness: a path of at least four cells returned on a grid with walls.
C6_Witness == found /\ Len(path) >= 4 /\ Cardinality(walls) = MaxWalls

\* C7: when end cannot be reached from start, findPath reports no path and
\* the visited set is exactly the set of cells reachable from start.
C7_UnreachableVisitsAll ==
    ~CanReach(startPos, endPos, walls) =>
        ~found /\ visited = Reachable(startPos, walls)

\* C7 witness: end walled off, not itself a wall, and the search has been
\* over several cells.
C7_Witness ==
    /\ ~CanReach(startPos, endPos, walls)
    /\ C3_EndpointsNotWalls
    /\ ~found
    /\ Cardinality(visited) >= 3

\* C8: with no walls the edge count of the returned path is the Manhattan
\* distance between start and end.
C8_NoWallsManhattan ==
    walls = {} => found /\ EdgeCount(path) = Heuristic(startPos, endPos)

\* What the code does return with no walls: as many cells as the Manhattan
\* distance.
NoWallsCellsManhattan ==
    walls = {} => found /\ Len(path) = Heuristic(startPos, endPos)

\* C9: after two toggles in succession of the same cell, not an endpoint,
\* the wall set, the path and the visited set are those before the first.
C9_ToggleTwiceRestores ==
    hist.kind = "toggle2" =>
        /\ walls = hist.walls
        /\ path = hist.path
        /\ visited = hist.visited
        /\ found = hist.found

\* C9 witness: a cell of the path was walled and freed again.
C9_Witness ==
    /\ hist.kind = "toggle2"
    /\ found
    /\ \E i \in 1..Len(path) : Key(path[i]) = hist.cell

\* C10: a search run again on an unchanged model yields the same path and
\* the same visited set, and what a search yields is what a search from
\* scratch on the current rows, cols, walls, start and end yields, whatever
\* the edits and searches before.
C10_SearchIdempotent ==
    /\ hist.kind = "rerun" =>
           path = hist.path /\ visited = hist.visited /\ found = hist.found
    /\ LET fresh == FindPath(startPos, endPos, Grid(rows, cols, walls))
       IN /\ path = fresh.path
          /\ visited = fresh.visited
          /\ found = (fresh.status = "found")

\* C10 witness: a search was run again on an unchanged model with walls,
\* after earlier edits, and found a path.
C10_Witness ==
    /\ hist.kind = "rerun"
    /\ walls # {}
    /\ startPos # StartPos0
    /\ found

\* C11: a drag of start onto the cell of end, or of end onto the cell of
\* start, leaves start, end and walls (and the size of the grid) as they
\* were; the handler returns without an error, being defined on every tile.
C11_MoveOntoOtherEndpointIgnored ==
    [][\A cell \in Cells :
          (/\ isDragging
           /\ \/ dragType = "start" /\ IsEnd(cell.row, cell.col)
              \/ dragType = "end" /\ IsStart(cell.row, cell.col)
           /\ HandleMouseEnter(cell.row, cell.col))
          => UNCHANGED <<rows, cols, startPos, endPos, walls>>]_vars

\* C11 witness: such a drag was just ignored, on a grid with walls.
C11_Witness == hist.kind = "refused" /\ walls # {}

\* C12: toggleWall on the start or end cell changes nothing; on any other
\* cell it flips the membership of that cell in the wall set and leaves the
\* membership of every other cell, and start and end, as they were.
C12_ToggleWallFlipsOneCell ==
    [][\A cell \in Cells :
          (/\ UNCHANGED <<rows, cols, startPos, endPos, isDragging, dragType>>
           /\ ToggleWall(cell.row, cell.col))
          => IF cell = startPos \/ cell = endPos
             THEN UNCHANGED <<rows, cols, startPos, endPos, walls, isDragging, dragType,
                              path, visited, found>>
             ELSE /\ Key(cell) \in walls' <=> Key(cell) \notin walls
                  /\ \A k \in (walls \cup walls') \ {Key(cell)} : k \in walls' <=> k \in walls
                  /\ UNCHANGED <<startPos, endPos>>]_vars

\* C12 witness: toggleWall has made walls of as many cells as the bound allows,
\* none of them the start or the end, which are where they were constructed.
C12_Witness ==
    /\ Cardinality(walls) = MaxWalls
    /\ startPos = StartPos0 /\ endPos = EndPos0
    /\ Key(startPos) \notin walls /\ Key(endPos) \notin walls

\* C13: a step that changes walls, start or end ends with the locals of a
\* search of the new walls, start and end, and after every step, as after
\* construction, the path and the visited set on display are those of a
\* search of the walls, start and end as they are.
C13_DisplayNeverStale ==
    /\ LET fresh == FindPath(startPos, endPos, Grid(rows, cols, walls))
       IN run = fresh /\ path = fresh.path /\ visited = fresh.visited
    /\ [][LET fresh == FindPath(startPos', endPos', Grid(rows', cols', walls'))
          IN /\ <<walls, startPos, endPos>>' # <<walls, startPos, endPos>> => run' = fresh
             /\ path' = fresh.path
             /\ visited' = fresh.visited
             /\ found' = (fresh.path # NoPath)]_vars

\* C13 witness: walls were put and start was moved, and the display is that
\* of a search that found no path from where start is now.
C13_Witness ==
    /\ walls # {}
    /\ startPos # StartPos0
    /\ Key(startPos) \notin walls
    /\ path = NoPath
    /\ Key(startPos) \in visited
    /\ ~isDragging

\* C14: however the grid was constructed (rows > 0, cols > 0) and whatever
\* edits followed, start and end are cells of the grid:
\* 0 <= row < rows and 0 <= col < cols.
C14_EndpointsInBounds ==
    /\ rows > 0 /\ cols > 0
    /\ startPos.row \in 0..(rows - 1) /\ startPos.col \in 0..(cols - 1)
    /\ endPos.row \in 0..(rows - 1) /\ endPos.col \in 0..(cols - 1)

\* The walk back along cameFrom from key k ends within n steps.
RECURSIVE WalkEnds(_, _, _)
WalkEnds(cameFrom, k, n) ==
    IF ~MapHas(cameFrom, k) THEN TRUE
    ELSE IF n = 0 THEN FALSE
    ELSE WalkEnds(cameFrom, Key(cameFrom[k]), n - 1)

NoDuplicates(seq) == \A i, j \in 1..Len(seq) : seq[i] = seq[j] => i = j

\* C15: findPath terminates: the loop is left, no cell is expanded more than
\* once, so that there are at most rows * cols expansions, and the walk back
\* along cameFrom from any cell ends.
C15_SearchTerminates ==
    /\ [](/\ NoDuplicates(hist.expanded)
          /\ Len(hist.expanded) <= rows * cols
          /\ \A k \in DOMAIN run.cameFrom :
                 WalkEnds(run.cameFrom, k, Cardinality(DOMAIN run.cameFrom)))
    /\ <>(run.status # "running")

\* C15 witness: a search has returned after expanding seven cells or more.
C15_Witness == run.status # "running" /\ Len(hist.expanded) >= 7

\* The place of neighbour n among the neighbours of c: up, down, left, right.
DirRank(c, n) ==
    IF n.row = c.row - 1 /\ n.col = c.col THEN 1
    ELSE IF n.row = c.row + 1 /\ n.col = c.col THEN 2
    ELSE IF n.row = c.row /\ n.col = c.col - 1 THEN 3
    ELSE IF n.row = c.row /\ n.col = c.col + 1 THEN 4
    ELSE 0

\* Index i is the first one of openSet whose fScore is the least.
FirstMinimum(openSet, fScore, i) ==
    /\ \A j \in 1..Len(openSet) : fScore[Key(openSet[i])] <= fScore[Key(openSet[j])]
    /\ \A j \in 1..(i - 1) : fScore[Key(openSet[j])] > fScore[Key(openSet[i])]

\* The cell an iteration chose: the one it expanded, or end when it returned
\* the path.
Chosen == IF run'.status = "found" THEN endPos
          ELSE Pos(hist'.expanded[Len(hist'.expanded)][1], hist'.expanded[Len(hist'.expanded)][2])

\* C16: the cell an iteration chooses has the least fScore of openSet and is
\* the first of openSet with that fScore; an expansion leaves the others in
\* their order and appends neighbours of the chosen cell only, in the order
\* up, down, left, right.
C16_FirstMinimumChosen ==
    [][run'.status # "nopath" =>
          \E i \in 1..Len(run.openSet) :
              /\ run.openSet[i] = Chosen
              /\ FirstMinimum(run.openSet, run.fScore, i)
              /\ run'.status = "running" =>
                    LET kept == Len(run.openSet) - 1
                        new == SubSeq(run'.openSet, kept + 1, Len(run'.openSet))
                    IN /\ SubSeq(run'.openSet, 1, kept) = Splice(run.openSet, i)
                       /\ \A k \in 1..Len(new) : DirRank(Chosen, new[k]) > 0
                       /\ \A k \in 1..(Len(new) - 1) :
                              DirRank(Chosen, new[k]) < DirRank(Chosen, new[k + 1])]_vars

\* C16 witness: after two expansions, the last of which appended two cells
\* or more, three cells or more are open and two of them are tied at the
\* least fScore.
C16_Witness ==
    /\ run.status = "running"
    /\ Len(hist.expanded) >= 2
    /\ Len(run.openSet) >= 3
    /\ run.cameFrom[Key(run.openSet[Len(run.openSet)])]
           = run.cameFrom[Key(run.openSet[Len(run.openSet) - 1])]
    /\ Key(run.cameFrom[Key(run.openSet[Len(run.openSet)])])
           = hist.expanded[Len(hist.expanded)]
    /\ \E i, j \in 1..Len(run.openSet) :
           /\ i < j
           /\ FirstMinimum(run.openSet, run.fScore, i)
           /\ run.fScore[Key(run.openSet[j])] = run.fScore[Key(run.openSet[i])]

\* C17: getNeighbors returns exactly the cells at the four offsets that are
\* in the grid and are not walls, and it returns end for every expanded cell
\* that end is adjacent to, end being in the grid.
C17_NeighboursExactAndEnd ==
    \A c \in Cells :
        LET neighbors == GetNeighbors(Grid(rows, cols, walls), c.row, c.col)
            returned == {neighbors[i] : i \in 1..Len(neighbors)}
        IN /\ returned = {n \in Cells : /\ Abs(n.row - c.row) + Abs(n.col - c.col) = 1
                                        /\ Key(n) \notin walls}
           /\ Len(neighbors) = Cardinality(returned)
           /\ (Key(c) \in visited /\ endPos \in Cells
                  /\ Abs(endPos.row - c.row) + Abs(endPos.col - c.col) = 1)
              => endPos \in returned

\* The first part of C17 alone: what getNeighbors returns, each cell once.
NeighboursExact ==
    \A c \in Cells :
        LET neighbors == GetNeighbors(Grid(rows, cols, walls), c.row, c.col)
            returned == {neighbors[i] : i \in 1..Len(neighbors)}
        IN /\ returned = {n \in Cells : /\ Abs(n.row - c.row) + Abs(n.col - c.col) = 1
                                        /\ Key(n) \notin walls}
           /\ Len(neighbors) = Cardinality(returned)

\* C18: clearWalls leaves no wall and leaves start, end, isDragging and
\* dragType as they were; the findPath it calls searches the grid without
\* walls from that start to that end and changes none of them, so that they
\* are after the call what clearWalls left.
C18_ClearWallsFrame ==
    [][ClearWalls =>
          /\ walls' = {}
          /\ UNCHANGED <<rows, cols, startPos, endPos, isDragging, dragType>>
          /\ run' = FindPath(startPos, endPos, Grid(rows, cols, {}))
          /\ visited' = run'.visited]_vars

\* C18 witness: walls were cleared in the middle of a drag that had moved end.
C18_Witness ==
    /\ hist.kind = "cleared"
    /\ walls = {}
    /\ isDragging
    /\ dragType = "end"
    /\ endPos # EndPos0

\* C19: isDragging holds exactly when dragType is "start" or "end"; a
\* mouseenter never changes walls, changes start only while dragType is
\* "start" and end only while dragType is "end", and changes nothing when no
\* drag is in progress; a mouseup leaves the machine not dragging.
C19_DragMachine ==
    /\ [](isDragging <=> dragType \in {"start", "end"})
    /\ [][\A cell \in Cells :
             HandleMouseEnter(cell.row, cell.col) =>
                 /\ walls' = walls
                 /\ startPos' # startPos => dragType = "start"
                 /\ endPos' # endPos => dragType = "end"
                 /\ ~isDragging => UNCHANGED <<rows, cols, startPos, endPos, walls,
                                               isDragging, dragType, path, visited, found>>]_vars
    /\ [][HandleMouseUp => ~isDragging' /\ dragType' = Null]_vars

\* C19 witness: start and end were both dragged away and the button is up.
C19_Witness ==
    /\ ~isDragging
    /\ dragType = Null
    /\ startPos # StartPos0
    /\ endPos # EndPos0

\* C20: at every step of a search start has gScore 0 and no cameFrom entry;
\* every other cell with a gScore has a cameFrom entry, a 4-adjacent cell
\* whose gScore is one less; the gScore of an expanded cell is its distance
\* from start by 4-connected moves through cells that are not walls, and
\* neither its gScore nor its cameFrom entry changes after the expansion.
C20_ScoresAndParents ==
    /\ [](/\ MapHas(run.gScore, Key(startPos))
          /\ run.gScore[Key(startPos)] = 0
          /\ ~MapHas(run.cameFrom, Key(startPos))
          /\ \A k \in (DOMAIN run.gScore) \ {Key(startPos)} :
                 /\ MapHas(run.cameFrom, k)
                 /\ Adjacent(Key(run.cameFrom[k]), k)
                 /\ MapHas(run.gScore, Key(run.cameFrom[k]))
                 /\ run.gScore[Key(run.cameFrom[k])] = run.gScore[k] - 1
          /\ \A k \in run.visited :
                 run.gScore[k] = Distance(startPos, Pos(k[1], k[2]), walls))
    /\ [][\A k \in run.visited :
              /\ run'.gScore[k] = run.gScore[k]
              /\ MapHas(run'.cameFrom, k) <=> MapHas(run.cameFrom, k)
              /\ MapHas(run.cameFrom, k) => run'.cameFrom[k] = run.cameFrom[k]]_vars

\* C20 witness: a search has expanded five cells or more, one of them three
\* moves or more from start, and goes on.
C20_Witness ==
    /\ run.status = "running"
    /\ Cardinality(run.visited) >= 5
    /\ \E k \in run.visited : run.gScore[k] >= 3
    /\ walls # {}

====
